---- MODULE Spec2Model ----
(***************************************************************************)
(* A model of apollo-form's FormManager / FormManipulator: the form state  *)
(* record kept in the external store, the validation pipeline, and the     *)
(* submit / reset state machines.                                          *)
(*                                                                         *)
(* Nested records (values, errors, touches) are represented by the map     *)
(* from their leaf paths to their leaf values; a path is the dotted string *)
(* the public API takes ("a" is a top-level field, "b.c" a nested one).    *)
(***************************************************************************)
EXTENDS Naturals, Sequences, FiniteSets

VARIABLES
    cfg,               \* the construction-time props (FormManagerParams)
    store,             \* the record held by the external store under the form's name
    present,           \* whether the store holds a record under the form's name
    customValidators,  \* FormManager.customValidators (shared with the manipulator)
    initialTouches,    \* the object FormManager.initialTouches refers to
    inflight,          \* the `state` objects captured by unsettled onSubmit promises
    last,              \* the last public operation and what it did (observation)
    nops               \* number of public operations called so far

vars == <<cfg, store, present, customValidators, initialTouches, inflight, last, nops>>

\* ---------------------------------------------------------------- bounds
MaxOps == 2
MaxInflight == 2

\* ---------------------------------------------------------------- domains
Paths == {"a", "b.c"}
Vals == {0, 1}
Undefined == "<undefined>"
ErrorInputs == {Undefined, "", "E1"}
ValidatorIds == {"v1", "v2"}

EmptyObj == [p \in {} |-> Undefined]

ValuesSet == [Paths -> Vals]
\* the whole-record values the operations are called with
ValuesInputs == {[p \in Paths |-> 1], [p \in Paths |-> IF p = "a" THEN 1 ELSE 0]}

\* the first segment of a dotted path: the top-level key it lives under
TopKey(p) == IF p = "b.c" THEN "b" ELSE p

\* JavaScript truthiness of an error leaf
Truthy(e) == e # Undefined /\ e # ""

\* ---------------------------------------------------------------- utils
getDeepStatus(obj, key) == IF key \in DOMAIN obj THEN obj[key] ELSE Undefined

setDeepStatus(obj, key, value) ==
    [p \in DOMAIN obj \cup {key} |-> IF p = key THEN value ELSE obj[p]]

objectDeepPairs(obj) == {<<p, obj[p]>> : p \in DOMAIN obj}

\* lodash _.set on a touches / values object
lodashSet(obj, key, value) ==
    [p \in DOMAIN obj \cup {key} |-> IF p = key THEN value ELSE obj[p]]

\* lodash _.merge(target, source): source leaves are copied over the target's
lodashMerge(target, source) ==
    [p \in DOMAIN target \cup DOMAIN source |->
        IF p \in DOMAIN source THEN source[p] ELSE target[p]]

\* `key in obj`: obj has the own top-level property named exactly key
keyIn(key, obj) == key \in {TopKey(p) : p \in DOMAIN obj}

\* ---------------------------------------------------------------- defaults
defaultState ==
    [errors |-> EmptyObj, touches |-> EmptyObj, isValid |-> TRUE,
     loading |-> FALSE, existsChanges |-> FALSE, isSubmitted |-> FALSE]

MkState(values, errors, touches, isValid, loading, existsChanges, isSubmitted) ==
    [values |-> values, errors |-> errors, touches |-> touches, isValid |-> isValid,
     loading |-> loading, existsChanges |-> existsChanges, isSubmitted |-> isSubmitted]

\* ---------------------------------------------------------------- validation sources
ValidateHandlers == {"none", "handler"}
ValidationSchemas == {"none", "schema"}

\* props.validate(state): the free-form validate function of the form.  It
\* reports "Hreq" for a zero field; for field a it always returns the key,
\* with the empty string when there is nothing to report.
validateHandler(state) ==
    [p \in {"a"} \cup {q \in {"b.c"} : state.values[q] = 0} |->
        IF state.values[p] = 0 THEN "Hreq" ELSE ""]

\* a registered FieldValidator applied to a field value
fieldValidator(id, value) ==
    IF value = 0 THEN (IF id = "v1" THEN "V1" ELSE "V2") ELSE Undefined

\* validationSchema.validateSync(values, {abortEarly: false}): e.inner, the
\* violations as path |-> message (every field must be non-zero)
schemaInner(values) == [p \in {q \in Paths : values[q] = 0} |-> "Smin"]

\* ---------------------------------------------------------------- FormManipulator
setValue(state, key, newValue) ==
    LET s1 == IF state.values[key] # newValue
              THEN [state EXCEPT !.values = lodashSet(@, key, newValue)]
              ELSE state
    IN  IF ~s1.existsChanges THEN [s1 EXCEPT !.existsChanges = TRUE] ELSE s1

setError(state, key, value) ==
    IF getDeepStatus(state.errors, key) # value
    THEN [state EXCEPT !.errors = setDeepStatus(@, key, value)]
    ELSE state

setTouched(state, key, value) ==
    IF key \in DOMAIN state.touches /\ state.touches[key] = value
    THEN state
    ELSE [state EXCEPT !.touches = setDeepStatus(@, key, value)]

\* the `for (const key in this.customValidators)` loop of validate
RECURSIVE runCustomValidators(_, _, _)
runCustomValidators(state, reg, keys) ==
    IF keys = {} THEN state
    ELSE LET key == CHOOSE k \in keys : TRUE
             newError == fieldValidator(reg[key], state.values[key])
             s1 == IF ~keyIn(key, state.errors) /\ Truthy(newError)
                   THEN setError(state, key, newError)
                   ELSE state
         IN  runCustomValidators(s1, reg, keys \ {key})

\* mutant of applySchemaErrors: a schema violation does not replace an error
\* an earlier source has set at the same path
RECURSIVE applySchemaErrorsKeepEarlier(_, _, _)
applySchemaErrorsKeepEarlier(state, inner, keys) ==
    IF keys = {} THEN state
    ELSE LET path == CHOOSE k \in keys : TRUE
             s1 == IF Truthy(getDeepStatus(state.errors, path)) THEN state
                   ELSE setError(state, path, inner[path])
         IN  applySchemaErrorsKeepEarlier(s1, inner, keys \ {path})

\* the `for (const err of e.inner)` loop of validate
RECURSIVE applySchemaErrors(_, _, _)
applySchemaErrors(state, inner, keys) ==
    IF keys = {} THEN state
    ELSE LET path == CHOOSE k \in keys : TRUE
         IN  applySchemaErrors(setError(state, path, inner[path]), inner, keys \ {path})

\* the `for (const pair of errorsPairs)` loop of validate
RECURSIVE touchPairs(_, _)
touchPairs(touches, pairs) ==
    IF pairs = {} THEN touches
    ELSE LET pair == CHOOSE q \in pairs : TRUE
         IN  touchPairs(lodashSet(touches, pair[1], TRUE), pairs \ {pair})

nextIsValidOf(errors) == ~(\E el \in objectDeepPairs(errors) : Truthy(el[2]))

\* FormManipulator.validate(state, allTouched) under the validator registry reg
validate(state, allTouched, reg) ==
    LET s0 == [state EXCEPT !.errors = EmptyObj]
        s1 == IF cfg.validateHandler # "none"
              THEN [s0 EXCEPT !.errors = lodashMerge(@, validateHandler(s0))]
              ELSE s0
        s2 == runCustomValidators(s1, reg, DOMAIN reg)
        s3 == IF cfg.validationSchema # "none"
              THEN applySchemaErrors(s2, schemaInner(s2.values),
                                     DOMAIN schemaInner(s2.values))
              ELSE s2
        errorsPairs == objectDeepPairs(s3.errors)
        s4 == IF allTouched
              THEN [s3 EXCEPT !.touches = touchPairs(@, errorsPairs)]
              ELSE s3
    IN  [s4 EXCEPT !.isValid = nextIsValidOf(s3.errors)]

\* the overrides FormManipulator.reset is called with: none, a replacement
\* value, or a function of the current values (here: keep field a)
NoOverride == [kind |-> "none", values |-> [p \in Paths |-> 0]]
ResetOverrides == {NoOverride} \cup
                  {[kind |-> "value", values |-> v] : v \in ValuesInputs} \cup
                  {[kind |-> "function", values |-> [p \in Paths |-> 0]]}

keepA(values) == [p \in Paths |-> IF p = "a" THEN values[p] ELSE cfg.initialState[p]]

\* FormManipulator.reset(state, getState); touches aliases initialTouches
reset(state, getState) ==
    [values        |-> IF getState.kind = "function" THEN keepA(state.values)
                       ELSE IF getState.kind = "value" THEN getState.values
                       ELSE cfg.initialState,
     errors        |-> cfg.initialErrors,
     touches       |-> initialTouches,
     isValid       |-> defaultState.isValid,
     loading       |-> defaultState.loading,
     existsChanges |-> defaultState.existsChanges,
     isSubmitted   |-> defaultState.isSubmitted]

\* ---------------------------------------------------------------- FormManager
\* the record get() writes when the store has none
initRecord ==
    MkState(cfg.initialState, cfg.initialErrors, initialTouches,
            defaultState.isValid, defaultState.loading,
            defaultState.existsChanges, defaultState.isSubmitted)

\* FormManager.get(): the stored record, initialised first when absent
get == IF present THEN store ELSE initRecord

\* the number of store writes get() performs
getWrites == IF present THEN 0 ELSE 1

setValuesState(state, values) == [state EXCEPT !.values = values]

setErrorsState(state, errors) == [state EXCEPT !.errors = errors]

setTouchesState(state, touches) == [state EXCEPT !.touches = touches]

\* mutant of setFieldValueState: re-validation marks every error path touched
setFieldValueStateAllTouched(state, key, newValue) ==
    LET touched == key \in DOMAIN state.touches /\ state.touches[key]
        s1 == IF ~touched THEN setTouched(state, key, TRUE) ELSE state
        s2 == setValue(s1, key, newValue)
    IN  validate(s2, TRUE, customValidators)

setFieldValueState(state, key, newValue) ==
    LET touched == key \in DOMAIN state.touches /\ state.touches[key]
        s1 == IF ~touched THEN setTouched(state, key, TRUE) ELSE state
        s2 == setValue(s1, key, newValue)
    IN  validate(s2, FALSE, customValidators)

setFieldErrorState(state, key, error) ==
    LET s1 == setError(state, key, error)
        errorsPairs == objectDeepPairs(s1.errors)
        nextIsValid == \E el \in errorsPairs : Truthy(el[2])
    IN  [s1 EXCEPT !.isValid = nextIsValid]

setFieldTouchedState(state, key, value) == setTouched(state, key, value)

validateState(state, allTouched) == validate(state, allTouched, customValidators)

\* mutant of submitState: loading is set before the validity check
submitStateLoadingFirst(state) ==
    LET s1 == validate(state, TRUE, customValidators)
    IN  [s1 EXCEPT !.isSubmitted = TRUE, !.loading = cfg.onSubmit \/ @]

\* mutant of submitState: the loading flag is never set
submitStateNoLoading(state) ==
    [validate(state, TRUE, customValidators) EXCEPT !.isSubmitted = TRUE]

\* mutant of submitInvokes: the handler is invoked only when none is pending
submitInvokesGuarded(state) ==
    /\ cfg.onSubmit /\ validate(state, TRUE, customValidators).isValid
    /\ inflight = << >>

\* submit() up to its first write: validate, mark submitted, maybe start loading
submitInvokes(state) ==
    cfg.onSubmit /\ validate(state, TRUE, customValidators).isValid

submitState(state) ==
    LET s1 == validate(state, TRUE, customValidators)
        s2 == [s1 EXCEPT !.isSubmitted = TRUE]
    IN  IF cfg.onSubmit /\ s2.isValid THEN [s2 EXCEPT !.loading = TRUE] ELSE s2

\* mutant of thenState: resetOnSubmit is ignored
thenStateNoReset(state) == [state EXCEPT !.loading = FALSE]

\* mutant of thenState: the callback reads the store again before it writes
thenStateRereads(state) ==
    LET s1 == [get EXCEPT !.loading = FALSE]
    IN  IF cfg.resetOnSubmit THEN reset(s1, NoOverride) ELSE s1

\* the .then callback of submit(), on the state object submit() captured
thenState(state) ==
    LET s1 == [state EXCEPT !.loading = FALSE]
    IN  IF cfg.resetOnSubmit THEN reset(s1, NoOverride) ELSE s1

\* mutant of catchState: the failure path resets like the success path
catchStateReset(state) ==
    LET s1 == [state EXCEPT !.loading = FALSE]
    IN  IF cfg.resetOnSubmit THEN reset(s1, NoOverride) ELSE s1

\* the .catch callback of submit(), on the state object submit() captured
catchState(state) == [state EXCEPT !.loading = FALSE]

\* FormManager.reset(getState): the record it writes
resetState(state, getState) ==
    LET s1 == reset(state, getState)
        s2 == validate(s1, cfg.validateOnMount, customValidators)
    IN  [s2 EXCEPT !.isSubmitted = FALSE, !.existsChanges = FALSE]

\* ---------------------------------------------------------------- configurations
\* the initial values of the form, and the initialErrors / initialTouches
\* snapshots it is constructed with
InitialState == [p \in Paths |-> IF p = "a" THEN 0 ELSE 1]
InitialSnapshots ==
    {[errors |-> EmptyObj, touches |-> EmptyObj],
     [errors |-> [p \in {"a"} |-> "E0"], touches |-> [p \in {"b.c"} |-> FALSE]]}

\* resetOnSubmit is read only by the callback of a configured onSubmit
Configs ==
    {[onSubmit |-> s[1], resetOnSubmit |-> s[2], onChange |-> c,
      validateOnMount |-> m, validateHandler |-> h, validationSchema |-> y,
      initialState |-> InitialState, initialErrors |-> i.errors,
      initialTouches |-> i.touches] :
        s \in {<<FALSE, FALSE>>, <<TRUE, FALSE>>, <<TRUE, TRUE>>},
        c \in BOOLEAN, m \in BOOLEAN, h \in ValidateHandlers,
        y \in ValidationSchemas, i \in InitialSnapshots}

EmptyReg == [p \in {} |-> "v1"]

NoCall == << >>

Op(op, key, val, writes, invoked, changed) ==
    [op |-> op, key |-> key, val |-> val, writes |-> writes,
     invoked |-> invoked, changed |-> changed]

\* the state after `new FormManager(props)`: get() writes the default record,
\* validate(validateOnMount) rewrites it
Init ==
    /\ cfg \in Configs
    /\ initialTouches = cfg.initialTouches
    /\ customValidators = EmptyReg
    /\ present = TRUE
    /\ store = validate(initRecord, cfg.validateOnMount, customValidators)
    /\ inflight = << >>
    /\ last = Op("new", "-", "-", 2, FALSE, NoCall)
    /\ nops = 0

\* a call of a public operation (the promise callbacks are not calls)
Step == nops < MaxOps /\ nops' = nops + 1

Frame == UNCHANGED <<cfg, customValidators, initialTouches, inflight>>

Written(state, op) ==
    /\ store' = state
    /\ present' = TRUE
    /\ last' = op

onChangeCall(values) == IF cfg.onChange THEN <<values>> ELSE NoCall

SetValues(values) ==
    /\ Step /\ Frame
    /\ Written(setValuesState(get, values),
               Op("setValues", "-", "-", getWrites + 1, FALSE, onChangeCall(values)))

SetErrors(errors) ==
    /\ Step /\ Frame
    /\ Written(setErrorsState(get, errors),
               Op("setErrors", "-", "-", getWrites + 1, FALSE, NoCall))

SetTouches(touches) ==
    /\ Step /\ Frame
    /\ Written(setTouchesState(get, touches),
               Op("setTouches", "-", "-", getWrites + 1, FALSE, NoCall))

SetFieldValue(key, newValue) ==
    /\ Step /\ Frame
    /\ LET state == setFieldValueState(get, key, newValue)
       IN  Written(state, Op("setFieldValue", key, newValue, getWrites + 1, FALSE,
                             onChangeCall(state.values)))

SetFieldError(key, error) ==
    /\ Step /\ Frame
    /\ Written(setFieldErrorState(get, key, error),
               Op("setFieldError", key, error, getWrites + 1, FALSE, NoCall))

SetFieldTouched(key, value) ==
    /\ Step /\ Frame
    /\ Written(setFieldTouchedState(get, key, value),
               Op("setFieldTouched", key, value, getWrites + 1, FALSE, NoCall))

SetIsValid(value) ==
    /\ Step /\ Frame
    /\ Written([get EXCEPT !.isValid = value],
               Op("setIsValid", "-", value, getWrites + 1, FALSE, NoCall))

SetIsSubmitted(value) ==
    /\ Step /\ Frame
    /\ Written([get EXCEPT !.isSubmitted = value],
               Op("setIsSubmitted", "-", value, getWrites + 1, FALSE, NoCall))

SetExistsChanges(value) ==
    /\ Step /\ Frame
    /\ Written([get EXCEPT !.existsChanges = value],
               Op("setExistsChanges", "-", value, getWrites + 1, FALSE, NoCall))

SetLoading(value) ==
    /\ Step /\ Frame
    /\ Written([get EXCEPT !.loading = value],
               Op("setLoading", "-", value, getWrites + 1, FALSE, NoCall))

Validate(allTouched) ==
    /\ Step /\ Frame
    /\ Written(validateState(get, allTouched),
               Op("validate", "-", allTouched, getWrites + 1, FALSE, NoCall))

\* mutant of AddFieldValidator: a later registration replaces the earlier one
AddFieldValidatorOverwrite(key, func) ==
    /\ Step
    /\ customValidators' =
          [p \in DOMAIN customValidators \cup {key} |->
              IF p = key THEN func ELSE customValidators[p]]
    /\ last' = Op("addFieldValidator", key, func, 0, FALSE, NoCall)
    /\ UNCHANGED <<cfg, store, present, initialTouches, inflight>>

AddFieldValidator(key, func) ==
    /\ Step
    /\ customValidators' =
          IF key \notin DOMAIN customValidators
          THEN [p \in DOMAIN customValidators \cup {key} |->
                   IF p = key THEN func ELSE customValidators[p]]
          ELSE customValidators
    /\ last' = Op("addFieldValidator", key, func, 0, FALSE, NoCall)
    /\ UNCHANGED <<cfg, store, present, initialTouches, inflight>>

RemoveFieldValidator(key) ==
    /\ Step
    /\ customValidators' = [p \in DOMAIN customValidators \ {key} |-> customValidators[p]]
    /\ last' = Op("removeFieldValidator", key, "-", 0, FALSE, NoCall)
    /\ UNCHANGED <<cfg, store, present, initialTouches, inflight>>

\* submit(): everything up to the return of the call; the promise callbacks
\* run later, as HandlerResolve / HandlerReject
Submit ==
    /\ Step
    /\ submitInvokes(get) => Len(inflight) < MaxInflight
    /\ LET state == submitState(get)
           invoked == submitInvokes(get)
       IN  /\ Written(state, Op("submit", "-", "-", getWrites + 1, invoked, NoCall))
           /\ inflight' = IF invoked THEN Append(inflight, state) ELSE inflight
    /\ UNCHANGED <<cfg, customValidators, initialTouches>>

Remove(seq, i) == SubSeq(seq, 1, i - 1) \o SubSeq(seq, i + 1, Len(seq))

\* the promise returned by the i-th unsettled onSubmit call resolves (the
\* observation keeps, as key, the operation the settlement comes after)
HandlerResolve(i) ==
    /\ i \in DOMAIN inflight
    /\ Written(thenState(inflight[i]), Op("resolve", last.op, i, 1, FALSE, NoCall))
    /\ inflight' = Remove(inflight, i)
    /\ UNCHANGED <<cfg, customValidators, initialTouches, nops>>

\* the promise returned by the i-th unsettled onSubmit call rejects
HandlerReject(i) ==
    /\ i \in DOMAIN inflight
    /\ Written(catchState(inflight[i]), Op("reject", last.op, i, 1, FALSE, NoCall))
    /\ inflight' = Remove(inflight, i)
    /\ UNCHANGED <<cfg, customValidators, initialTouches, nops>>

\* reset(getState): state.touches is the initialTouches object itself, so
\* what validate writes into state.touches it writes into initialTouches
Reset(getState) ==
    /\ Step
    /\ LET state == resetState(get, getState)
       IN  /\ Written(state, Op("reset", "-", getState.kind, getWrites + 1, FALSE, NoCall))
           /\ initialTouches' = state.touches
    /\ UNCHANGED <<cfg, customValidators, inflight>>

\* ---------------------------------------------------------------- inputs
ErrorsInputs == {EmptyObj, [p \in {"a"} |-> "E1"], [p \in {"b.c"} |-> "E1"]}
TouchesInputs == {EmptyObj, [p \in {"a"} |-> TRUE]}

\* every public operation except the scalar overrides setIsValid, setLoading
Operations ==
    \/ \E values \in ValuesInputs : SetValues(values)
    \/ \E errors \in ErrorsInputs : SetErrors(errors)
    \/ \E touches \in TouchesInputs : SetTouches(touches)
    \/ \E key \in Paths, v \in Vals : SetFieldValue(key, v)
    \/ \E key \in Paths, e \in ErrorInputs : SetFieldError(key, e)
    \/ \E key \in Paths, b \in BOOLEAN : SetFieldTouched(key, b)
    \/ \E b \in BOOLEAN : SetIsSubmitted(b)
    \/ \E b \in BOOLEAN : SetExistsChanges(b)
    \/ \E b \in BOOLEAN : Validate(b)
    \/ \E key \in Paths, f \in ValidatorIds : AddFieldValidator(key, f)
    \/ \E key \in Paths : RemoveFieldValidator(key)
    \/ Submit
    \/ \E i \in 1..MaxInflight : HandlerResolve(i)
    \/ \E i \in 1..MaxInflight : HandlerReject(i)
    \/ \E g \in ResetOverrides : Reset(g)

Next ==
    \/ Operations
    \/ \E b \in BOOLEAN : SetIsValid(b)
    \/ \E b \in BOOLEAN : SetLoading(b)

\* the public operations without the isValid override
NextNoSetIsValid ==
    \/ Operations
    \/ \E b \in BOOLEAN : SetLoading(b)

\* the public operations without the loading override
NextNoSetLoading ==
    \/ Operations
    \/ \E b \in BOOLEAN : SetIsValid(b)

Spec == Init /\ [][Next]_vars

SpecNoSetIsValid == Init /\ [][NextNoSetIsValid]_vars

SpecNoSetLoading == Init /\ [][NextNoSetLoading]_vars

\* ---------------------------------------------------------------- eviction
\* a public call of get(): returns the stored record, writing the initial
\* record first when the store has none
Get ==
    /\ Step /\ Frame
    /\ Written(get, Op("get", "-", "-", getWrites, FALSE, NoCall))

\* the surrounding integration evicts the form's record from the store
\* (cache.evict in useApolloForm); from then on readQuery finds nothing
Evict ==
    /\ present
    /\ present' = FALSE
    /\ last' = Op("evict", "-", "-", 0, FALSE, NoCall)
    /\ UNCHANGED <<cfg, store, customValidators, initialTouches, inflight, nops>>

\* the public operations, get() calls and external evictions
NextEvict ==
    \/ Next
    \/ Get
    \/ Evict

SpecEvict == Init /\ [][NextEvict]_vars

\* ---------------------------------------------------------------- claims
Constructed ==
    validate(MkState(cfg.initialState, cfg.initialErrors, cfg.initialTouches,
                     defaultState.isValid, defaultState.loading,
                     defaultState.existsChanges, defaultState.isSubmitted),
             cfg.validateOnMount, EmptyReg)

NoErrorLeaf(errors) == \A p \in DOMAIN errors : errors[p] \in {"", Undefined}

\* C1 (as claimed): without setIsValid, in every stored record isValid is true
\* if and only if no leaf of the errors tree is a non-empty string.
C1_IsValidIffNoErrorLeaf == store.isValid <=> NoErrorLeaf(store.errors)

\* C2 (as claimed): after setFieldError(path, error) the error leaf at path
\* equals error and isValid is true exactly when no leaf of errors is a
\* non-empty string.
C2_SetFieldErrorRecomputesIsValid ==
    last.op = "setFieldError" =>
        /\ getDeepStatus(store.errors, last.key) = last.val
        /\ store.isValid <=> NoErrorLeaf(store.errors)

\* C3 (as claimed): a submit() that invokes the handler leaves loading and
\* isSubmitted true, and when that handler resolves next the store holds
\* loading=false and isSubmitted=true, whatever resetOnSubmit is.
C3_ResolveKeepsSubmitted ==
    [][/\ (last'.op = "submit" /\ last'.invoked) =>
              (store'.loading /\ store'.isSubmitted)
       /\ (last.op = "submit" /\ last.invoked /\ last'.op = "resolve"
              /\ last'.val = Len(inflight)) =>
              (~store'.loading /\ store'.isSubmitted)]_vars

\* C3 (amended): a submit() that invokes the handler leaves loading and
\* isSubmitted true; when that handler resolves next the store holds
\* loading=false, and isSubmitted=true exactly when resetOnSubmit is not
\* configured (with resetOnSubmit the record is reset, isSubmitted=false).
C3_ResolveSubmittedUnlessReset ==
    [][/\ (last'.op = "submit" /\ last'.invoked) =>
              (store'.loading /\ store'.isSubmitted)
       /\ (last.op = "submit" /\ last.invoked /\ last'.op = "resolve"
              /\ last'.val = Len(inflight)) =>
              (~store'.loading /\ (store'.isSubmitted <=> ~cfg.resetOnSubmit))]_vars

\* C3 witness: the handler of the only operation, a submit, has resolved
\* under resetOnSubmit and the record is no longer submitted.
C3_Witness ==
    /\ last.op = "resolve" /\ nops = 1 /\ cfg.resetOnSubmit
    /\ ~store.loading /\ ~store.isSubmitted

\* C4: a submit() whose validation yields isValid=false, or with no handler
\* configured, invokes no handler, keeps the stored loading flag, and writes
\* the store once, with isSubmitted=true and the freshly validated errors.
C4_InvalidSubmitWritesOnce ==
    [][(last'.op = "submit"
          /\ (~cfg.onSubmit \/ ~validate(get, TRUE, customValidators).isValid)) =>
            /\ ~last'.invoked
            /\ inflight' = inflight
            /\ store'.loading = get.loading
            /\ last'.writes = 1
            /\ store'.isSubmitted
            /\ store'.errors = validate(get, TRUE, customValidators).errors
            /\ ~cfg.onSubmit \/ ~store'.isValid]_vars

\* C4 witness: an invalid submit() with a handler configured has been made
\* on a record whose loading flag was true, and it still is.
C4_Witness ==
    /\ last.op = "submit" /\ ~last.invoked /\ cfg.onSubmit
    /\ ~store.isValid /\ store.isSubmitted /\ store.loading
    /\ \E p \in DOMAIN store.errors : Truthy(store.errors[p])

\* C5: a submit() that invokes the handler captures the record it validated
\* and wrote; when that handler rejects, the store is written with
\* loading=false and isSubmitted=true and the values, errors and touches of
\* the captured record, with no reset, whatever resetOnSubmit is.
C5_RejectWritesSubmitState ==
    [][/\ (last'.op = "submit" /\ last'.invoked) =>
              /\ inflight' = Append(inflight, store')
              /\ store'.values = get.values
              /\ store'.errors = validate(get, TRUE, customValidators).errors
              /\ store'.touches = validate(get, TRUE, customValidators).touches
       /\ last'.op = "reject" =>
              LET captured == inflight[last'.val]
              IN  /\ ~store'.loading
                  /\ store'.isSubmitted
                  /\ store'.values = captured.values
                  /\ store'.errors = captured.errors
                  /\ store'.touches = captured.touches
                  /\ inflight' = Remove(inflight, last'.val)]_vars

\* C5 witness: a handler has rejected under resetOnSubmit after the values
\* were changed away from the initial ones, and the record keeps them.
C5_Witness ==
    /\ last.op = "reject" /\ cfg.resetOnSubmit
    /\ ~store.loading /\ store.isSubmitted
    /\ store.values # cfg.initialState

\* C6 (as claimed): without setLoading, in every state with an unsettled
\* onSubmit handler the stored loading flag is true.
C6_LoadingWhileInflight == Len(inflight) > 0 => store.loading

\* C6 (amended): without setLoading, a submit() that invokes the handler
\* leaves loading true, and while a handler is unsettled every operation other
\* than reset and the settlement of a handler keeps a true loading flag true:
\* loading is true in every state with an unsettled handler as long as no
\* reset was called and no handler settled since the last invoking submit().
C6_LoadingUntilResetOrSettle ==
    [][(/\ Len(inflight') > 0
        /\ last'.op \notin {"reset", "resolve", "reject"}
        /\ (last'.op = "submit" /\ last'.invoked) \/ get.loading) =>
            store'.loading]_vars

\* C6 witness: a field value was set while a handler was in flight, and
\* loading is still true.
C6_Witness ==
    /\ last.op = "setFieldValue" /\ Len(inflight) > 0 /\ store.loading
    /\ store.values # inflight[1].values

\* C7 (as claimed): once existsChanges is true, only reset(), a resolve under
\* resetOnSubmit, or setExistsChanges(false) turns it back to false.
C7_ExistsChangesMonotonic ==
    [][(/\ get.existsChanges
        /\ last'.op # "reset"
        /\ ~(last'.op = "resolve" /\ cfg.resetOnSubmit)
        /\ ~(last'.op = "setExistsChanges" /\ last'.val = FALSE)) =>
            store'.existsChanges]_vars

\* C8 (as claimed): after a setFieldValue or setValues that changes the stored
\* values, existsChanges is true.
C8_ValueChangeSetsExistsChanges ==
    [][(last'.op \in {"setFieldValue", "setValues"} /\ store'.values # get.values) =>
            store'.existsChanges]_vars

\* C9: after setFieldValue(path, v) the record has values[path]=v,
\* touches[path]=true with the touched flags of the other paths unchanged,
\* existsChanges=true, errors and isValid as validation (allTouched=false) of
\* the new values computes them, loading and isSubmitted unchanged; onChange,
\* if configured, was called once with the new values.
C9_SetFieldValueEffect ==
    [][last'.op = "setFieldValue" =>
          LET key == last'.key
              revalidated == validate(store', FALSE, customValidators)
          IN  /\ store'.values[key] = last'.val
              /\ \A p \in Paths \ {key} : store'.values[p] = get.values[p]
              /\ key \in DOMAIN store'.touches /\ store'.touches[key]
              /\ DOMAIN store'.touches \ {key} = DOMAIN get.touches \ {key}
              /\ \A p \in DOMAIN get.touches \ {key} :
                     store'.touches[p] = get.touches[p]
              /\ store'.existsChanges
              /\ store'.errors = revalidated.errors
              /\ store'.isValid = revalidated.isValid
              /\ store'.isValid <=> NoErrorLeaf(store'.errors)
              /\ store'.loading = get.loading
              /\ store'.isSubmitted = get.isSubmitted
              /\ last'.changed =
                     IF cfg.onChange THEN <<store'.values>> ELSE NoCall]_vars

\* C9 witness (scenario B): under a schema, setFieldValue("a", 1) made the
\* record valid, touched a, and onChange received the new values.
C9_Witness ==
    /\ last.op = "setFieldValue" /\ last.key = "a" /\ last.val = 1
    /\ cfg.validationSchema = "schema" /\ cfg.onChange
    /\ store.values["a"] = 1 /\ store.isValid /\ store.existsChanges
    /\ "a" \in DOMAIN store.touches /\ store.touches["a"]
    /\ last.changed = <<store.values>>

\* C10 (as claimed): with the validator registry as at construction, after
\* reset() with no override the stored values are the initial values, the
\* stored errors and touches are those held right after construction, and
\* isSubmitted, existsChanges and loading are false.
C10_ResetRestoresConstruction ==
    (last.op = "reset" /\ last.val = "none" /\ customValidators = EmptyReg) =>
        /\ store.values = cfg.initialState
        /\ store.errors = Constructed.errors
        /\ store.touches = Constructed.touches
        /\ ~store.isSubmitted /\ ~store.existsChanges /\ ~store.loading

\* the record a get() on an empty store is to write: the default flags with
\* the initial values, errors and touches the form was constructed with
InitialRecord ==
    MkState(cfg.initialState, cfg.initialErrors, cfg.initialTouches,
            TRUE, FALSE, FALSE, FALSE)

\* C11 (as claimed): under evictions, every get() leaves and returns a
\* complete record, and a get() that finds the record absent writes and
\* returns the default flags with the initial values, errors and touches.
C11_GetInitialisesAbsentRecord ==
    last.op = "get" =>
        /\ present
        /\ last.writes = 1 => store = InitialRecord

\* the message validator id reports for a zero value
ValidatorMessage(id) == IF id = "v1" THEN "V1" ELSE "V2"

\* C12: addFieldValidator(path, f) registers f only when no validator is
\* registered at path (the first registration stays), removeFieldValidator
\* empties the path so that a later registration takes effect, neither writes
\* to the store, and validation reports the message of the registered
\* validator and of no other.
C12_FirstRegistrationWins ==
    [][/\ last'.op = "addFieldValidator" =>
              LET key == last'.key
              IN  /\ key \in DOMAIN customValidators =>
                         customValidators' = customValidators
                  /\ key \notin DOMAIN customValidators =>
                         /\ DOMAIN customValidators' = DOMAIN customValidators \cup {key}
                         /\ customValidators'[key] = last'.val
                         /\ \A p \in DOMAIN customValidators :
                                customValidators'[p] = customValidators[p]
                  /\ store' = store /\ present' = present /\ last'.writes = 0
       /\ last'.op = "removeFieldValidator" =>
              /\ DOMAIN customValidators' = DOMAIN customValidators \ {last'.key}
              /\ \A p \in DOMAIN customValidators' :
                     customValidators'[p] = customValidators[p]
              /\ store' = store /\ present' = present /\ last'.writes = 0
       /\ (last'.op = "validate" /\ cfg.validateHandler = "none"
              /\ cfg.validationSchema = "none") =>
              \A p \in Paths :
                  IF p \in DOMAIN customValidators /\ get.values[p] = 0
                  THEN /\ p \in DOMAIN store'.errors
                       /\ store'.errors[p] = ValidatorMessage(customValidators[p])
                  ELSE p \notin DOMAIN store'.errors]_vars

\* C12 witness (scenario F): a second validator was offered for a path that
\* already had a different one, and the first is still the registered one.
C12_Witness ==
    /\ last.op = "addFieldValidator"
    /\ last.key \in DOMAIN customValidators
    /\ customValidators[last.key] # last.val

\* C13 (as claimed): a settlement writes nothing read before the await, so
\* a field value stored by setFieldValue while the submit was in flight is
\* still in the store after the handler settles (unless resetOnSubmit resets
\* the values).
C13_SettlementKeepsStoredValues ==
    [][(/\ last.op = "setFieldValue"
        /\ last'.op = "reject" \/ (last'.op = "resolve" /\ ~cfg.resetOnSubmit)) =>
            store'.values[last.key] = last.val]_vars

\* C14: when setFieldValue, setFieldError, setFieldTouched or reset is called
\* between the loading=true write of submit() and the settlement, the record
\* in the store right after the settlement is exactly the one the settlement
\* writes from the state submit() captured (loading=false; the reset record
\* on a resolve under resetOnSubmit): nothing of the interleaved write is
\* merged into it.
C14_SettlementWriteWinsWholesale ==
    [][(/\ last.op \in {"setFieldValue", "setFieldError", "setFieldTouched", "reset"}
        /\ last'.op \in {"resolve", "reject"}) =>
            LET captured == inflight[last'.val]
            IN  /\ captured.loading /\ captured.isSubmitted
                /\ store' =
                     IF last'.op = "resolve" /\ cfg.resetOnSubmit
                     THEN MkState(cfg.initialState, cfg.initialErrors, initialTouches,
                                  TRUE, FALSE, FALSE, FALSE)
                     ELSE [captured EXCEPT !.loading = FALSE]]_vars

\* C14 witness: a handler resolved right after a setFieldValue that had
\* changed the stored values and set existsChanges, and the store holds the
\* submit-time record again.
C14_Witness ==
    /\ last.op = "resolve" /\ last.key = "setFieldValue" /\ ~cfg.resetOnSubmit
    /\ nops = 2 /\ inflight = << >>
    /\ store.values = cfg.initialState /\ ~store.existsChanges
    /\ store.isSubmitted /\ ~store.loading

\* C15: a submit() on a state that validates as valid invokes the configured
\* handler whether or not earlier handlers are still unsettled (each call adds
\* one unsettled handler), and every settlement performs one write of its own
\* and settles one handler.
C15_NoInflightGuard ==
    [][/\ (last'.op = "submit" /\ cfg.onSubmit
              /\ validate(get, TRUE, customValidators).isValid) =>
              /\ last'.invoked
              /\ Len(inflight') = Len(inflight) + 1
              /\ inflight'[Len(inflight')] = store'
       /\ last'.op \in {"resolve", "reject"} =>
              /\ last'.writes = 1 /\ present'
              /\ Len(inflight') = Len(inflight) - 1
              /\ ~store'.loading]_vars

\* C15 witness: two submit() calls each invoked the handler, one of the two
\* has settled and written loading=false, the other is still unsettled.
C15_Witness ==
    /\ last.op \in {"resolve", "reject"} /\ last.key = "submit"
    /\ nops = 2 /\ Len(inflight) = 1
    /\ ~store.loading /\ inflight[1].loading

\* the error the free-form validate function produces at path p for the
\* values of state (Undefined when it is not configured or reports nothing)
handlerErrorAt(state, p) ==
    IF cfg.validateHandler # "none" /\ p \in DOMAIN validateHandler(state)
    THEN validateHandler(state)[p]
    ELSE Undefined

\* the schema reports a violation at path p for the values of state
schemaReports(state, p) ==
    cfg.validationSchema # "none" /\ p \in DOMAIN schemaInner(state.values)

\* C16: after a validation, at every path p with a registered custom validator
\* (and no schema violation): when the free-form validate function produced an
\* error at p, that error stands and the custom validator is skipped, for
\* top-level and dotted paths alike; otherwise a non-empty result of the
\* custom validator on the current value at p is the error at p.
C16_CustomValidatorSkippedOnHandlerError ==
    [][last'.op \in {"validate", "setFieldValue"} =>
         \A p \in DOMAIN customValidators :
            LET newError == fieldValidator(customValidators[p], store'.values[p])
            IN  ~schemaReports(store', p) =>
                   IF Truthy(handlerErrorAt(store', p))
                   THEN getDeepStatus(store'.errors, p) = handlerErrorAt(store', p)
                   ELSE Truthy(newError) => getDeepStatus(store'.errors, p) = newError]_vars

\* the error the sources before the schema leave at path p: the custom
\* validator's when it is registered, runs and reports, else the handler's
earlierErrorAt(state, p) ==
    LET handlerErrors == IF cfg.validateHandler # "none"
                         THEN validateHandler(state) ELSE EmptyObj
        newError == IF p \in DOMAIN customValidators
                    THEN fieldValidator(customValidators[p], state.values[p])
                    ELSE Undefined
    IN  IF p \in DOMAIN customValidators /\ ~keyIn(p, handlerErrors) /\ Truthy(newError)
        THEN newError
        ELSE handlerErrorAt(state, p)

\* C17: after a validation with a schema configured, the error at every path
\* the schema reports is the schema's message, whatever the free-form validate
\* function or a custom validator set there, and the error at every other path
\* is the one the earlier sources left.
C17_SchemaErrorsAppliedLast ==
    [][(last'.op \in {"validate", "setFieldValue", "submit"}
           /\ cfg.validationSchema # "none") =>
         \A p \in Paths :
            IF schemaReports(store', p)
            THEN getDeepStatus(store'.errors, p) = schemaInner(store'.values)[p]
            ELSE getDeepStatus(store'.errors, p) = earlierErrorAt(store', p)]_vars

\* C17 witness: the schema's message stands at b.c where the validate function
\* reported another one, and the validate function's entry for a is kept.
C17_Witness ==
    /\ last.op = "validate" /\ cfg.validationSchema # "none"
    /\ handlerErrorAt(store, "b.c") = "Hreq" /\ schemaReports(store, "b.c")
    /\ getDeepStatus(store.errors, "b.c") = "Smin"
    /\ ~schemaReports(store, "a") /\ "a" \in DOMAIN store.errors
    /\ store.errors["a"] = handlerErrorAt(store, "a")

\* the touched flag at path p is the same in both touches records
SameTouched(before, after, p) ==
    /\ p \in DOMAIN after <=> p \in DOMAIN before
    /\ p \in DOMAIN before => after[p] = before[p]

\* C18: validate(allTouched = true) and submit() store touched = true at every
\* path whose resulting error is a non-empty string and leave the touched flag
\* of every other path as it was; validate(allTouched = false) changes no
\* touched flag.
C18_AllTouchedMarksExactlyErrorPaths ==
    [][/\ (last'.op = "submit" \/ (last'.op = "validate" /\ last'.val = TRUE)) =>
            \A p \in Paths :
               IF Truthy(getDeepStatus(store'.errors, p))
               THEN p \in DOMAIN store'.touches /\ store'.touches[p] = TRUE
               ELSE SameTouched(get.touches, store'.touches, p)
       /\ (last'.op = "validate" /\ last'.val = FALSE) =>
            store'.touches = get.touches]_vars

\* C19: the initial touches snapshot the Manipulator holds always equals the
\* one supplied at construction (the initial values and initial errors are
\* never assigned after construction), whatever public operations have run.
C19_InitialSnapshotsNeverModified == initialTouches = cfg.initialTouches

====
